---- MODULE Spec2Model ----
(***************************************************************************)
(* Model of mime.py: a Discord client whose on_message handler classifies  *)
(* each message, sends primary mentions through a one-worker process pool  *)
(* (process_message: filter_content, infer_message,                        *)
(* write_inference_to_file) and replies inline or with inference.md.       *)
(*                                                                         *)
(* Strings are sequences of one-character strings.                         *)
(***************************************************************************)
EXTENDS Integers, Sequences, FiniteSets, TLC

(* ------------------------------ bounds -------------------------------- *)

\* number of messages the gateway delivers in one behaviour
MaxMsgs == 3
\* longest text given to filter_content in FunctionSpec
MaxLen == 4
\* longest mention list given to the classification in FunctionSpec
MaxMentions == 3
\* os.getenv('DISCORD_MESSAGE_LIMIT'): a configuration value, kept small
DISCORD_MESSAGE_LIMIT == 2

(* ------------------------- program constants -------------------------- *)

\* a pool of two workers
max_workers_two == 1 + 1

\* ProcessPoolExecutor(max_workers=1)
max_workers == 1

\* self.application_id, and ids of other users that can be mentioned
application_id == "agent"
OtherIds == {"other", "third"}
\* self.user and another author
SelfUser == "self"
OtherUser == "user"

\* self.application.name
application_name == <<"a", "b">>

\* the reply of line 168 and the notice of line 163
YouCalled == "You called?"
Notice == "Response content exceeded Discord's message size limits; see inference.md"

Ids == 1..MaxMsgs
Workers == 1..max_workers

(* --------------------------- filter_content --------------------------- *)

\* str.replace(old, ""): left to right, non-overlapping, one pass; an empty
\* old changes nothing when the replacement is empty
RECURSIVE str_replace(_, _)
str_replace(s, old) ==
    IF old = <<>> \/ Len(s) < Len(old) THEN s
    ELSE IF SubSeq(s, 1, Len(old)) = old
         THEN str_replace(SubSeq(s, Len(old) + 1, Len(s)), old)
         ELSE <<Head(s)>> \o str_replace(Tail(s), old)

\* re.sub(r'[<>&@]', '', s)
re_sub(s) == SelectSeq(s, LAMBDA c : c \notin {"<", ">", "&", "@"})

Whitespace == {" "}

RECURSIVE lstrip(_)
lstrip(s) == IF s # <<>> /\ Head(s) \in Whitespace THEN lstrip(Tail(s)) ELSE s

RECURSIVE rstrip(_)
rstrip(s) ==
    IF s # <<>> /\ s[Len(s)] \in Whitespace
    THEN rstrip(SubSeq(s, 1, Len(s) - 1)) ELSE s

\* str.strip()
strip(s) == rstrip(lstrip(s))

\* filter_content(content, name)
filter_content(content, name) == strip(re_sub(str_replace(content, name)))

(* --------------------------- classification --------------------------- *)

\* x in list
In(x, list) == \E i \in 1..Len(list) : list[i] = x

\* the if/elif chain with the membership test placed before the first-position test
ClassifyMembershipFirst(author, raw_mentions) ==
    IF author = SelfUser THEN "Ignored"
    ELSE IF raw_mentions = <<>> THEN "Ignored"
    ELSE IF In(application_id, raw_mentions) THEN "SecondaryReply"
    ELSE IF application_id = raw_mentions[1] THEN "PrimaryReply"
    ELSE "Ignored"

\* the if/elif chain of on_message: which branch a message takes
Classify(author, raw_mentions) ==
    IF author = SelfUser THEN "Ignored"
    ELSE IF raw_mentions = <<>> THEN "Ignored"
    ELSE IF application_id = raw_mentions[1] THEN "PrimaryReply"
    ELSE IF In(application_id, raw_mentions) THEN "SecondaryReply"
    ELSE "Ignored"

(* ------------------------------- state -------------------------------- *)

VARIABLES
    inbox,          \* messages received from the gateway, on_message not yet run
    nextId,         \* id of the next message to arrive
    running,        \* <<m>> while on_message(m) holds the event-loop thread, else <<>>
    logged,         \* per message: number of "Processing Message" log records
    cls,            \* per message: the branch on_message took ("none" before)
    pc,             \* per message: where its on_message coroutine stands
    queue,          \* the executor's pending work items, in submission order
    workers,        \* per pool worker: the process_message call it executes
    future,         \* per message: the future run_in_executor returned
    file,           \* inference.md
    replyCall,      \* per message: the arguments on_message gave message.reply
    delivered,      \* per message: what message.reply sent
    replies,        \* per message: number of message.reply calls made for it
    dispatchOrder,  \* history: ids in the order they were submitted to the executor
    startOrder,     \* history: ids in the order a worker began process_message
    engineCalls,    \* history: per message, number of llm(template) calls
    lastOK,         \* history: result of the last process_message that returned
    writers,        \* history: ids whose process_message opened inference.md to write
    call            \* FunctionSpec: one function and its arguments and results

vars == <<inbox, nextId, running, logged, cls, pc, queue, workers, future, file,
          replyCall, delivered, replies, dispatchOrder, startOrder, engineCalls, lastOK,
          writers, call>>

loopVars == <<inbox, nextId, running, logged, cls, pc, replyCall, delivered, replies>>
poolVars == <<queue, workers, future, file, dispatchOrder, startOrder, engineCalls,
             lastOK, writers>>

(* ------------------------------- inputs ------------------------------- *)

\* the messages that arrive: author, message.raw_mentions, message.clean_content
Msg(author, raw_mentions, clean_content) ==
    [author |-> author, raw_mentions |-> raw_mentions, clean_content |-> clean_content]

TextHi == <<"@", "a", "b", " ", "h", "i">>
TextYo == <<"<", "y", "o", ">", " ">>

Messages ==
    { Msg(SelfUser, <<application_id>>, TextHi),
      Msg(OtherUser, <<>>, TextHi),
      Msg(OtherUser, <<application_id>>, TextHi),
      Msg(OtherUser, <<application_id>>, TextYo),
      Msg(OtherUser, <<application_id, "other">>, TextYo),
      Msg(OtherUser, <<"other", application_id>>, TextHi),
      Msg(OtherUser, <<"other">>, TextYo) }

\* what llm(template) can return: texts at the size limit and one above it
Results ==
    { [i \in 1..n |-> c] : n \in {DISCORD_MESSAGE_LIMIT, DISCORD_MESSAGE_LIMIT + 1},
                           c \in {"x", "y"} }

\* inference.md as a previous run of the program may have left it
StaleFile == [exists |-> TRUE, data |-> <<"o">>]
NoFile == [exists |-> FALSE, data |-> <<>>]

NoFuture == [state |-> "none", value |-> <<>>]
NoReply == [kind |-> "none", content |-> <<>>, attachment |-> <<>>]
IdleWorker == [status |-> "idle", id |-> 0, prompt |-> <<>>, inference |-> <<>>]
NoCall == [fn |-> "none"]

\* the prompt of infer_message: the fixed text around the filtered content
template(content) == <<"### Instruction:\n">> \o content \o <<"\n\n### Response:\n">>

MainInit ==
    /\ inbox = <<>>
    /\ nextId = 1
    /\ running = <<>>
    /\ logged = [i \in Ids |-> 0]
    /\ cls = [i \in Ids |-> "none"]
    /\ pc = [i \in Ids |-> "new"]
    /\ queue = <<>>
    /\ workers = [w \in Workers |-> IdleWorker]
    /\ future = [i \in Ids |-> NoFuture]
    /\ file \in {NoFile, StaleFile}
    /\ replyCall = [i \in Ids |-> NoReply]
    /\ delivered = [i \in Ids |-> NoReply]
    /\ replies = [i \in Ids |-> 0]
    /\ dispatchOrder = <<>>
    /\ startOrder = <<>>
    /\ engineCalls = [i \in Ids |-> 0]
    /\ lastOK = [any |-> FALSE, value |-> <<>>]
    /\ writers = {}

Init == MainInit /\ call = NoCall

(* ----------------------------- event loop ----------------------------- *)

\* the gateway delivers a message; discord.py schedules on_message for it
Arrive ==
    /\ nextId <= MaxMsgs
    /\ \E m \in Messages :
          inbox' = Append(inbox, [id |-> nextId, author |-> m.author,
                                  raw_mentions |-> m.raw_mentions,
                                  clean_content |-> m.clean_content])
    /\ nextId' = nextId + 1
    /\ UNCHANGED <<running, logged, cls, pc, replyCall, delivered, replies, call>>
    /\ UNCHANGED poolVars

\* the log call placed after the test of the author
LogsUnlessOwn(m) == m.author # SelfUser

\* logging.info is the first statement of on_message: every message is logged
Logs(m) == TRUE

\* on_message begins for the oldest scheduled message: logging.info(...).
\* The handler holds the event-loop thread (running) until OnMessageBranch
\* ends its synchronous part, so no other handler step comes between the two.
OnMessageLog ==
    /\ running = <<>>
    /\ inbox # <<>>
    /\ running' = <<Head(inbox)>>
    /\ inbox' = Tail(inbox)
    /\ logged' = [logged EXCEPT ![Head(inbox).id] =
                        IF Logs(Head(inbox)) THEN @ + 1 ELSE @]
    /\ pc' = [pc EXCEPT ![Head(inbox).id] = "logged"]
    /\ UNCHANGED <<nextId, cls, replyCall, delivered, replies, call>>
    /\ UNCHANGED poolVars

\* the handler calls process_message itself and keeps the event-loop thread
AwaitBlocks(m) == <<m>>

\* await self.loop.run_in_executor(...): the coroutine suspends, the loop is free
AwaitYields(m) == <<>>

\* the primary branch also taken by secondary mentions
SubmitsUnlessIgnored(c) == c # "Ignored"

\* the early returns missing: an ignored message falls into the primary branch
SubmitsUnlessSecondary(c) == c # "SecondaryReply"

\* which branch submits process_message to the executor
Submits(c) == c = "PrimaryReply"

\* the if/elif chain of on_message, up to the first await of the branch taken
OnMessageBranch ==
    /\ running # <<>>
    /\ pc[running[1].id] = "logged"
    /\ LET m == running[1]
           c == Classify(m.author, m.raw_mentions)
       IN /\ cls' = [cls EXCEPT ![m.id] = c]
          /\ IF Submits(c)
             THEN /\ queue' = Append(queue, [id |-> m.id, content |-> m.clean_content,
                                             name |-> application_name])
                  /\ future' = [future EXCEPT ![m.id] = [state |-> "pending", value |-> <<>>]]
                  /\ dispatchOrder' = Append(dispatchOrder, m.id)
                  /\ pc' = [pc EXCEPT ![m.id] = "await_infer"]
                  /\ running' = AwaitYields(m)
                  /\ UNCHANGED <<replyCall, replies>>
             ELSE IF c = "SecondaryReply"
             THEN /\ replyCall' = [replyCall EXCEPT ![m.id] =
                          [kind |-> "text", content |-> <<YouCalled>>, attachment |-> <<>>]]
                  /\ replies' = [replies EXCEPT ![m.id] = @ + 1]
                  /\ pc' = [pc EXCEPT ![m.id] = "await_reply"]
                  /\ running' = <<>>
                  /\ UNCHANGED <<queue, future, dispatchOrder>>
             ELSE /\ pc' = [pc EXCEPT ![m.id] = "returned"]
                  /\ running' = <<>>
                  /\ UNCHANGED <<queue, future, dispatchOrder, replyCall, replies>>
    /\ UNCHANGED <<inbox, nextId, logged, delivered, call>>
    /\ UNCHANGED <<workers, file, startOrder, engineCalls, lastOK, writers>>

\* len(output) > limit as len(output) >= limit
OverLimitOffByOne(output) == Len(output) >= DISCORD_MESSAGE_LIMIT

\* len(output) > int(os.getenv('DISCORD_MESSAGE_LIMIT'))
OverLimit(output) == Len(output) > DISCORD_MESSAGE_LIMIT

\* no fallback: an output over the limit gets no reply at all
ReplyOnlyInline(output) ==
    IF OverLimit(output)
    THEN NoReply
    ELSE [kind |-> "text", content |-> output, attachment |-> <<>>]

\* the inline reply takes its text from inference.md instead of the output
ReplyInlineFromFile(output) ==
    IF OverLimit(output)
    THEN [kind |-> "file", content |-> <<Notice>>, attachment |-> <<>>]
    ELSE [kind |-> "text", content |-> file.data, attachment |-> <<>>]

\* lines 161-165: the arguments of message.reply for an output: the notice and
\* the opened inference.md when it is over the limit, else the output itself
ReplyFor(output) ==
    IF OverLimit(output)
    THEN [kind |-> "file", content |-> <<Notice>>, attachment |-> <<>>]
    ELSE [kind |-> "text", content |-> output, attachment |-> <<>>]

\* the future holds a result: on_message resumes, tests the length and calls reply
ResumeReturned(id) ==
    /\ running = <<>>
    /\ pc[id] = "await_infer"
    /\ future[id].state = "returned"
    /\ LET reply == ReplyFor(future[id].value)
       IN /\ replyCall' = [replyCall EXCEPT ![id] = reply]
          /\ replies' = [replies EXCEPT ![id] = IF reply.kind = "none" THEN @ ELSE @ + 1]
          /\ pc' = [pc EXCEPT ![id] =
                       IF reply.kind = "none" THEN "returned" ELSE "await_reply"]
    /\ UNCHANGED <<inbox, nextId, running, logged, cls, delivered, call>>
    /\ UNCHANGED poolVars

\* the handler answers a failed inference with a notice
ReplyOnRaise(id) == [kind |-> "text", content |-> <<"error">>, attachment |-> <<>>]

\* what on_message hands to message.reply when the await raises: nothing
NoReplyOnRaise(id) == NoReply

\* the await given a timeout: it also raises while the future is pending
AwaitTimesOut(id) == future[id].state \in {"raised", "pending"}

\* the await of line 159 raises only when the future holds an exception
AwaitRaises(id) == future[id].state = "raised"

\* the future holds an exception: the await raises and on_message ends
ResumeRaised(id) ==
    /\ running = <<>>
    /\ pc[id] = "await_infer"
    /\ AwaitRaises(id)
    /\ replyCall' = [replyCall EXCEPT ![id] = NoReplyOnRaise(id)]
    /\ replies' = [replies EXCEPT ![id] =
                      IF replyCall'[id].kind = "none" THEN @ ELSE @ + 1]
    /\ pc' = [pc EXCEPT ![id] =
                 IF replyCall'[id].kind = "none" THEN "raised" ELSE "await_reply"]
    /\ UNCHANGED <<inbox, nextId, running, logged, cls, delivered, call>>
    /\ UNCHANGED poolVars

\* message.reply sends: an attached file is read when the request is sent
ReplySent(id) ==
    /\ running = <<>>
    /\ pc[id] = "await_reply"
    /\ delivered' = [delivered EXCEPT ![id] =
           IF replyCall[id].kind = "file"
           THEN [replyCall[id] EXCEPT !.attachment = file.data]
           ELSE replyCall[id]]
    /\ pc' = [pc EXCEPT ![id] = "returned"]
    /\ UNCHANGED <<inbox, nextId, running, logged, cls, replyCall, replies, call>>
    /\ UNCHANGED poolVars

\* message.reply raises (the platform refuses the request): on_message ends
ReplyFailed(id) ==
    /\ running = <<>>
    /\ pc[id] = "await_reply"
    /\ pc' = [pc EXCEPT ![id] = "raised"]
    /\ UNCHANGED <<inbox, nextId, running, logged, cls, replyCall, delivered, replies,
                   call>>
    /\ UNCHANGED poolVars

(* ------------------------- the executor's pool ------------------------ *)

\* the newest work item first
NewestFirst(q) == Len(q)

\* the executor hands out work items in submission order: index of the next one
NextWorkItem(q) == 1

RemoveAt(q, i) == SubSeq(q, 1, i - 1) \o SubSeq(q, i + 1, Len(q))

\* a free worker takes the next work item: process_message begins with
\* content = filter_content(content, name), and infer_message builds the prompt
WorkerStart(w) ==
    /\ workers[w].status = "idle"
    /\ queue # <<>>
    /\ LET i == NextWorkItem(queue)
           item == queue[i]
       IN /\ workers' = [workers EXCEPT ![w] =
                 [status |-> "infer", id |-> item.id,
                  prompt |-> template(filter_content(item.content, item.name)),
                  inference |-> <<>>]]
          /\ queue' = RemoveAt(queue, i)
          /\ startOrder' = Append(startOrder, item.id)
    /\ UNCHANGED <<future, file, dispatchOrder, engineCalls, lastOK, writers, call>>
    /\ UNCHANGED loopVars

\* infer_message: llm(template) returns a text
InferReturns(w) ==
    /\ workers[w].status = "infer"
    /\ \E r \in Results :
          workers' = [workers EXCEPT ![w].status = "write", ![w].prompt = <<>>,
                                     ![w].inference = r]
    /\ engineCalls' = [engineCalls EXCEPT ![workers[w].id] = @ + 1]
    /\ UNCHANGED <<queue, future, file, dispatchOrder, startOrder, lastOK, writers, call>>
    /\ UNCHANGED loopVars

\* a worker that raised takes no further work
BrokenAfterRaise(w) == [IdleWorker EXCEPT !.status = "broken"]

\* the worker process after its call raised: the exception went to the future
\* and the worker is free again
FreeAfterRaise(w) == IdleWorker

\* the file opened before the engine is called: a raise leaves it truncated
TruncatedAfterRaise(w) == [exists |-> TRUE, data |-> <<>>]

\* inference.md after the engine raised: line 112 is never reached
FileAfterRaise(w) == file

\* infer_message: llm(template) raises; process_message raises with it
InferRaises(w) ==
    /\ workers[w].status = "infer"
    /\ engineCalls' = [engineCalls EXCEPT ![workers[w].id] = @ + 1]
    /\ future' = [future EXCEPT ![workers[w].id] = [state |-> "raised", value |-> <<>>]]
    /\ workers' = [workers EXCEPT ![w] = FreeAfterRaise(w)]
    /\ file' = FileAfterRaise(w)
    /\ UNCHANGED <<queue, dispatchOrder, startOrder, lastOK, writers, call>>
    /\ UNCHANGED loopVars

\* write_inference_to_file: open("inference.md", "w") creates or truncates
OpenForWrite(w) ==
    /\ workers[w].status = "write"
    /\ file' = [exists |-> TRUE, data |-> <<>>]
    /\ workers' = [workers EXCEPT ![w].status = "opened"]
    /\ writers' = writers \cup {workers[w].id}
    /\ UNCHANGED <<queue, future, dispatchOrder, startOrder, engineCalls, lastOK, call>>
    /\ UNCHANGED loopVars

\* only a result over the size limit is written
WrittenIfOverLimit(inference) == IF OverLimit(inference) THEN inference ELSE <<>>

\* output.write(inference): the file's content once the with block closes it
Written(inference) == inference

\* write_inference_to_file: output.write(inference) and the close
WriteAndClose(w) ==
    /\ workers[w].status = "opened"
    /\ file' = [exists |-> TRUE, data |-> Written(workers[w].inference)]
    /\ workers' = [workers EXCEPT ![w].status = "return"]
    /\ UNCHANGED <<queue, future, dispatchOrder, startOrder, engineCalls, lastOK, writers,
                   call>>
    /\ UNCHANGED loopVars

\* return inference: the future gets the result and the worker is free
ProcessReturns(w) ==
    /\ workers[w].status = "return"
    /\ future' = [future EXCEPT ![workers[w].id] =
                      [state |-> "returned", value |-> workers[w].inference]]
    /\ lastOK' = [any |-> TRUE, value |-> workers[w].inference]
    /\ workers' = [workers EXCEPT ![w] = IdleWorker]
    /\ UNCHANGED <<queue, file, dispatchOrder, startOrder, engineCalls, writers, call>>
    /\ UNCHANGED loopVars

(* --------------------------- specifications --------------------------- *)

Loop ==
    \/ OnMessageLog
    \/ OnMessageBranch
    \/ \E id \in Ids : ResumeReturned(id)
    \/ \E id \in Ids : ResumeRaised(id)
    \/ \E id \in Ids : ReplySent(id)

Pool ==
    \/ \E w \in Workers : WorkerStart(w)
    \/ \E w \in Workers : InferReturns(w)
    \/ \E w \in Workers : InferRaises(w)
    \/ \E w \in Workers : OpenForWrite(w)
    \/ \E w \in Workers : WriteAndClose(w)
    \/ \E w \in Workers : ProcessReturns(w)

Next ==
    \/ Arrive
    \/ Loop
    \/ \E id \in Ids : ReplyFailed(id)
    \/ Pool

Spec == Init /\ [][Next]_vars

\* the asyncio loop runs every callback that is ready, and the platform answers
\* each reply request; nothing is assumed of the pool
LoopFairSpec == Spec /\ WF_vars(Loop)

\* as LoopFairSpec, and every call of the engine ends (returns or raises) and
\* the worker process keeps running
FairSpec == Spec /\ WF_vars(Loop) /\ WF_vars(Pool)

(* ------------------- the pure functions, on their own ------------------ *)

SeqsUpTo(S, n) == UNION { [1..k -> S] : k \in 0..n }

\* characters of the texts given to filter_content, and the agent names
Alphabet == {"a", "b", "@", "<", " "}
Names == SeqsUpTo({"a", "b"}, 2) \ {<<>>}

FilterCalls ==
    { [fn |-> "filter", content |-> t, name |-> n, out |-> <<>>] :
          t \in SeqsUpTo(Alphabet, MaxLen), n \in Names }

ClassifyCalls ==
    { [fn |-> "classify", author |-> a, raw_mentions |-> m, out |-> <<>>] :
          a \in {SelfUser, OtherUser},
          m \in SeqsUpTo({application_id} \cup OtherIds, MaxMentions) }

FunctionInit ==
    /\ MainInit
    /\ file = NoFile
    /\ call \in FilterCalls \cup ClassifyCalls

\* filter_content(content, name), then filter_content on its own output
CallFilter ==
    /\ call.fn = "filter"
    /\ Len(call.out) < 2
    /\ LET arg == IF call.out = <<>> THEN call.content ELSE call.out[Len(call.out)]
       IN call' = [call EXCEPT !.out = Append(@, filter_content(arg, call.name))]
    /\ UNCHANGED loopVars
    /\ UNCHANGED poolVars

\* the branch on_message takes for (author, raw_mentions)
CallClassify ==
    /\ call.fn = "classify"
    /\ call.out = <<>>
    /\ call' = [call EXCEPT !.out = <<Classify(call.author, call.raw_mentions)>>]
    /\ UNCHANGED loopVars
    /\ UNCHANGED poolVars

FunctionNext ==
    \/ CallFilter
    \/ CallClassify

FunctionSpec == FunctionInit /\ [][FunctionNext]_vars

(* ------------------------------- claims ------------------------------- *)

\* process_message(m) was started by a worker and its future is not yet done
Executing(m) == In(m, startOrder) /\ future[m].state = "pending"

OnWorker(m) == \E w \in Workers : workers[w].status # "idle" /\ workers[w].id = m

Queued(m) == \E i \in 1..Len(queue) : queue[i].id = m

Done(m) == future[m].state \in {"returned", "raised"}

\* C1: at most one process_message call is executing at any instant
C1_OneInferenceAtATime ==
    Cardinality({ m \in Ids : Executing(m) }) <= 1

\* C1 witness: one inference is executing while another request waits in the queue
C1_Witness ==
    \E m \in Ids : Executing(m) /\ OnWorker(m) /\ queue # <<>>

\* C2: requests are started in the order they were submitted; a request is
\* started only when every request submitted before it is done (returned or
\* raised); and a started request stays on its worker until it is done
C2_FifoNoPreemption ==
    /\ Len(startOrder) <= Len(dispatchOrder)
    /\ \A i \in 1..Len(startOrder) :
          /\ startOrder[i] = dispatchOrder[i]
          /\ \A j \in 1..(i - 1) : Done(startOrder[j])
          /\ Executing(startOrder[i]) => OnWorker(startOrder[i])

\* C2 witness: a second request runs after the first one raised, a third waits
C2_Witness ==
    /\ Len(startOrder) = 2
    /\ future[startOrder[1]].state = "raised"
    /\ Executing(startOrder[2])
    /\ queue # <<>>

\* C3: an attachment sent in reply to a message holds that message's own
\* inference result
C3_AttachmentIsOwnResult ==
    \A m \in Ids :
        delivered[m].kind = "file" =>
            /\ future[m].state = "returned"
            /\ delivered[m].attachment = future[m].value

\* C4: a successful inference has written its result to inference.md by the
\* time process_message returns it; so in every state where no worker is
\* between open and close of the file, the file holds the result of the last
\* inference that finished its write: the one about to be returned if there
\* is one, else the last one returned, whatever became of its reply
C4_FileHoldsLastResult ==
    /\ \A w \in Workers :
          workers[w].status = "return" =>
              file = [exists |-> TRUE, data |-> workers[w].inference]
    /\ (lastOK.any /\ \A w \in Workers : workers[w].status \in {"idle", "infer", "write"})
          => file = [exists |-> TRUE, data |-> lastOK.value]

\* C4 witness: the reply to a message failed, its result is the last one and is on file
C4_Witness ==
    \E m \in Ids :
        /\ future[m].state = "returned"
        /\ pc[m] = "raised"
        /\ \A w \in Workers : workers[w].status = "idle"
        /\ lastOK = [any |-> TRUE, value |-> future[m].value]
        /\ file.data = future[m].value
        /\ \E n \in Ids : n > m /\ future[n].state = "raised"

\* C5: the branch taken is decided by (author is the agent, mention list) in
\* this order: the agent's own message is Ignored; an empty mention list is
\* Ignored; the agent first in the list is PrimaryReply; the agent later in
\* the list is SecondaryReply; anything else is Ignored.  So [agent, other]
\* is PrimaryReply, [other, agent] is SecondaryReply, and a message of the
\* agent is Ignored whatever it mentions.
C5_ClassificationRule ==
    (call.fn = "classify" /\ call.out # <<>>) =>
        LET a == call.author
            m == call.raw_mentions
            c == call.out[1]
            later == \E i \in 2..Len(m) : m[i] = application_id
        IN /\ c \in {"Ignored", "PrimaryReply", "SecondaryReply"}
           /\ (c = "PrimaryReply") <=>
                  (a # SelfUser /\ Len(m) > 0 /\ m[1] = application_id)
           /\ (c = "SecondaryReply") <=>
                  (a # SelfUser /\ Len(m) > 0 /\ m[1] # application_id /\ later)
           /\ (m = <<application_id, "other">> /\ a # SelfUser => c = "PrimaryReply")
           /\ (m = <<"other", application_id>> /\ a # SelfUser => c = "SecondaryReply")
           /\ (a = SelfUser => c = "Ignored")

\* C5 witness: [agent, other, agent] from another author was classified PrimaryReply
C5_Witness ==
    /\ call.fn = "classify"
    /\ call.author = OtherUser
    /\ call.raw_mentions = <<application_id, "other", application_id>>
    /\ call.out = <<"PrimaryReply">>

\* C6: a message that took the SecondaryReply branch is answered with
\* "You called?", is never submitted to the executor, never reaches the
\* engine and never writes inference.md
C6_SecondaryIsCanned ==
    \A m \in Ids :
        cls[m] = "SecondaryReply" =>
            /\ replyCall[m] = [kind |-> "text", content |-> <<YouCalled>>, attachment |-> <<>>]
            /\ delivered[m] \in {NoReply, replyCall[m]}
            /\ ~In(m, dispatchOrder)
            /\ ~Queued(m)
            /\ future[m] = NoFuture
            /\ engineCalls[m] = 0
            /\ m \notin writers

\* C6 witness: a secondary mention got its "You called?" while the file is untouched
C6_Witness ==
    \E m \in Ids :
        /\ cls[m] = "SecondaryReply"
        /\ delivered[m].content = <<YouCalled>>
        /\ writers = {}

\* C7: messages are classified in the order they arrived; every message that
\* arrived is classified, and every secondary mention gets its reply call
\* completed, even if no inference ever makes progress
C7_LoopNeverBlocked ==
    /\ [](\A m, n \in Ids : (m < n /\ cls[n] # "none") => cls[m] # "none")
    /\ \A m \in Ids : (m < nextId) ~> (cls[m] # "none")
    /\ \A m \in Ids : (cls[m] = "SecondaryReply") ~> (pc[m] \in {"returned", "raised"})

\* C7 witness: a secondary mention that arrived after the request now running,
\* with another request queued, has its reply
C7_Witness ==
    \E m, n \in Ids :
        /\ m < n
        /\ Executing(m)
        /\ queue # <<>>
        /\ cls[n] = "SecondaryReply"
        /\ delivered[n].content = <<YouCalled>>

\* C8: once an inference has raised, every message that arrived is still
\* classified and every submitted request is still brought to its end
C8_FailureIsLocal ==
    /\ \A m \in Ids :
          ((\E a \in Ids : future[a].state = "raised") /\ m < nextId) ~> (cls[m] # "none")
    /\ \A m \in Ids :
          ((\E a \in Ids : future[a].state = "raised") /\ future[m].state = "pending")
              ~> Done(m)

\* C8 witness: after one inference raised, a request queued behind it and one
\* submitted after the failure both returned
C8_Witness ==
    /\ Len(startOrder) = 3
    /\ future[startOrder[1]].state = "raised"
    /\ future[startOrder[2]].state = "returned"
    /\ future[startOrder[3]].state = "returned"

\* C9: a message whose inference raised gets no reply call and no reply, and
\* the engine was called once for it
C9_RaiseMeansNoReplyNoRetry ==
    \A m \in Ids :
        future[m].state = "raised" =>
            /\ replyCall[m] = NoReply
            /\ delivered[m] = NoReply
            /\ engineCalls[m] = 1
            /\ Cardinality({ i \in 1..Len(startOrder) : startOrder[i] = m }) = 1
            /\ ~Queued(m) /\ ~OnWorker(m)

\* C9 witness: the handler of a message whose inference raised has ended
C9_Witness ==
    \E m \in Ids : future[m].state = "raised" /\ pc[m] = "raised"

\* C10: filter_content applied to its own output, with the same name, gives
\* that output again
C10_FilterIdempotent ==
    (call.fn = "filter" /\ Len(call.out) = 2) => call.out[2] = call.out[1]

\* s contains sub as a contiguous substring
Contains(s, sub) ==
    \E i \in 1..(Len(s) - Len(sub) + 1) : SubSeq(s, i, i + Len(sub) - 1) = sub

\* C11: the output of filter_content(t, n) contains none of < > & @ and no
\* occurrence of n, also none that forms only once the characters are gone
C11_FilterRemovesCharsAndName ==
    (call.fn = "filter" /\ Len(call.out) >= 1) =>
        /\ \A i \in 1..Len(call.out[1]) : call.out[1][i] \notin {"<", ">", "&", "@"}
        /\ ~Contains(call.out[1], call.name)

\* on_message(m) got the result of its inference and made its reply call
Resumed(m) == future[m].state = "returned" /\ pc[m] \in {"await_reply", "returned", "raised"}

\* C12: the reply call depends on the length of the result alone: a result of
\* at most DISCORD_MESSAGE_LIMIT characters is sent as the text of the reply,
\* a longer one as the notice with inference.md attached; a result of exactly
\* the limit is inline, one of the limit plus one is an attachment
C12_ReplyFormByLength ==
    \A m \in Ids :
        Resumed(m) =>
            LET output == future[m].value
            IN /\ Len(output) <= DISCORD_MESSAGE_LIMIT =>
                      replyCall[m] = [kind |-> "text", content |-> output, attachment |-> <<>>]
               /\ Len(output) > DISCORD_MESSAGE_LIMIT =>
                      /\ replyCall[m].kind = "file"
                      /\ replyCall[m].content = <<Notice>>
               /\ Len(output) = DISCORD_MESSAGE_LIMIT => replyCall[m].kind = "text"
               /\ Len(output) = DISCORD_MESSAGE_LIMIT + 1 => replyCall[m].kind = "file"

\* C12 witness: a result of exactly the limit was sent inline and one of the
\* limit plus one as an attachment
C12_Witness ==
    \E m, n \in Ids :
        /\ Len(future[m].value) = DISCORD_MESSAGE_LIMIT
        /\ delivered[m].kind = "text"
        /\ Len(future[n].value) = DISCORD_MESSAGE_LIMIT + 1
        /\ delivered[n].kind = "file"

\* C13: every primary mention is run by the engine once, one run at a time,
\* and a primary mention whose inference does not raise and whose reply is
\* not refused gets one reply
C13_BurstIsServed ==
    /\ [](/\ Cardinality({ m \in Ids : Executing(m) }) <= 1
          /\ \A m \in Ids :
                /\ engineCalls[m] <= 1
                /\ replies[m] <= 1
                /\ Cardinality({ i \in 1..Len(startOrder) : startOrder[i] = m }) <= 1)
    /\ \A m \in Ids : (cls[m] = "PrimaryReply") ~> (engineCalls[m] = 1)
    /\ \A m \in Ids :
          (cls[m] = "PrimaryReply") ~>
              \/ (replies[m] = 1 /\ delivered[m] # NoReply)
              \/ future[m].state = "raised"
              \/ pc[m] = "raised"

\* C13 witness: every message of the run was a primary mention and has its reply
C13_Witness ==
    \A m \in Ids :
        /\ cls[m] = "PrimaryReply"
        /\ engineCalls[m] = 1
        /\ replies[m] = 1
        /\ delivered[m] # NoReply

\* C14: as long as an inference has not ended, its handler stays at the await
\* with no reply call made, and every request submitted after it stays in the
\* queue, not started and without a reply
C14_NoTimeoutNoOvertaking ==
    \A i \in 1..Len(dispatchOrder) :
        LET m == dispatchOrder[i]
        IN future[m].state = "pending" =>
               /\ pc[m] = "await_infer"
               /\ replyCall[m] = NoReply
               /\ delivered[m] = NoReply
               /\ \A j \in (i + 1)..Len(dispatchOrder) :
                     LET n == dispatchOrder[j]
                     IN /\ Queued(n)
                        /\ ~In(n, startOrder)
                        /\ engineCalls[n] = 0
                        /\ pc[n] = "await_infer"
                        /\ delivered[n] = NoReply

\* C14 witness: an inference is in the engine and all other messages wait behind it
C14_Witness ==
    \E m \in Ids :
        /\ Executing(m)
        /\ \E w \in Workers : workers[w].status = "infer"
        /\ Len(queue) = MaxMsgs - 1

\* C15: a message whose handler has begun has one log record, written while
\* it was not yet classified, whatever branch it takes afterwards
C15_LoggedOnceBeforeClassifying ==
    \A m \in Ids :
        /\ logged[m] <= 1
        /\ pc[m] # "new" => logged[m] = 1
        /\ cls[m] # "none" => logged[m] = 1
        /\ (pc[m] = "logged") => (cls[m] = "none" /\ running # <<>> /\ running[1].id = m)

\* C15 witness: an ignored message of the agent itself, a secondary and a
\* primary mention are each logged once
C15_Witness ==
    /\ running # <<>> /\ running[1].author = SelfUser /\ logged[running[1].id] = 1
    /\ \E m, n \in Ids :
          /\ cls[m] = "SecondaryReply" /\ logged[m] = 1
          /\ cls[n] = "PrimaryReply" /\ logged[n] = 1

\* C16: the text of an inline reply to a primary mention is the result
\* process_message returned for that message, whatever inference.md holds
C16_InlineIsOwnResult ==
    \A m \in Ids :
        (cls[m] = "PrimaryReply" /\ replyCall[m].kind = "text") =>
            /\ future[m].state = "returned"
            /\ replyCall[m].content = future[m].value
            /\ delivered[m] \in {NoReply, replyCall[m]}

\* C16 witness: an inline reply was sent while inference.md held the result
\* of a later inference
C16_Witness ==
    \E m, n \in Ids :
        /\ m # n
        /\ delivered[m].kind = "text"
        /\ delivered[m].content = future[m].value
        /\ future[n].state = "returned"
        /\ file.data = future[n].value
        /\ file.data # future[m].value

\* C17: a message has at most one reply call; a message that took no reply
\* branch has no reply, was never submitted to the executor and never wrote
\* inference.md
C17_AtMostOneReplyIgnoredNone ==
    \A m \in Ids :
        /\ replies[m] <= 1
        /\ cls[m] = "Ignored" =>
              /\ pc[m] = "returned"
              /\ replies[m] = 0
              /\ replyCall[m] = NoReply
              /\ delivered[m] = NoReply
              /\ ~In(m, dispatchOrder)
              /\ ~Queued(m)
              /\ future[m] = NoFuture
              /\ engineCalls[m] = 0
              /\ m \notin writers

\* C17 witness: every message of the run was ignored and inference.md is as it was
C17_Witness ==
    /\ \A m \in Ids : cls[m] = "Ignored"
    /\ file = StaleFile

\* C18: an inference that raised never opened inference.md; while no worker
\* is writing, the file holds the last returned result, or is as it was at
\* the start if no inference has returned
C18_RaiseLeavesFile ==
    \A m \in Ids :
        future[m].state = "raised" =>
            /\ m \notin writers
            /\ (\A w \in Workers : workers[w].status \in {"idle", "infer", "write"}) =>
                   IF lastOK.any
                   THEN file = [exists |-> TRUE, data |-> lastOK.value]
                   ELSE writers = {} /\ file \in {NoFile, StaleFile}

\* C18 witness: an inference raised after another returned, and the file still
\* holds the returned result
C18_Witness ==
    \E m, n \in Ids :
        /\ Len(startOrder) = 2
        /\ startOrder = <<m, n>>
        /\ future[m].state = "returned"
        /\ future[n].state = "raised"
        /\ file = [exists |-> TRUE, data |-> future[m].value]

====
